---- MODULE Spec2Model ----
(***************************************************************************)
(* Z-Fusion launcher scripts: the two menu definitions (pinokio.js and its *)
(* quick-update variant), the install pipeline and the update pipeline.    *)
(*                                                                         *)
(* Strings are TLA+ strings and + on strings is \o, so that targets such   *)
(* as "start.js?ts=" + Date.now() and paths such as "app" + "/" + "env"    *)
(* are computed, not assumed.                                              *)
(***************************************************************************)
EXTENDS Integers, Sequences, FiniteSets, TLC

VARIABLES
    fs,        \* the paths that exist on disk, other than checkouts
    checkout,  \* destination path -> URL of the repository checked out there, "" if none
    running,   \* the launcher's process registry: script -> is a process of it active
    local,     \* the record start.js has published, as info.local("start.js") returns it
    now,       \* the clock Date.now() reads
    pc,        \* pipeline script -> <<step, command>> being executed, <<0, 0>> when not running
    status,    \* pipeline script -> state of its latest run
    run,       \* the latest launch: the script, the marker's existence and the script's status before it
    last,      \* the latest shell command a pipeline executed, with what git did
    shown,     \* the completion of the latest menu evaluation
    seen,      \* what the latest menu evaluation read, and which definition evaluated
    query      \* a menu evaluation made query by query: its position, what it has read so far,
               \* and every state the system has been in since it began

vars == <<fs, checkout, running, local, now, pc, status, run, last, shown, seen, query>>

-----------------------------------------------------------------------------
(* Bounds *)

MaxClock == 2

\* The states the system passes through during one evaluation, at most.
MaxInstants == 3

-----------------------------------------------------------------------------
(* The lifecycle scripts and the values the launcher's queries return *)

Scripts == {"install.js", "start.js", "update.js", "quick_update.js", "reset.js"}

Pipelines == {"install.js", "update.js"}

EnvMarker == "app/env"

Urls == {"http://localhost:7860", "http://127.0.0.1:8188"}

\* info.local(script): null when the script has no record; a record whose url
\* is undefined or "" (both falsy) is written url |-> "".
Null == [rec |-> FALSE, url |-> ""]

Locals == {Null} \cup {[rec |-> TRUE, url |-> u] : u \in Urls \cup {""}}

\* The `info` argument of menu(kernel, info) in the current state.
Info ==
    [exists  |-> [p \in {EnvMarker} |-> p \in fs],
     running |-> running,
     local   |-> [s \in {"start.js"} |-> local],
     now     |-> now]

\* What an evaluation holds before it has made any query.
Unread ==
    [exists  |-> [p \in {EnvMarker} |-> FALSE],
     running |-> [s \in Scripts |-> FALSE],
     local   |-> [s \in {"start.js"} |-> Null],
     now     |-> 0]

\* No evaluation is being made query by query.
NoQuery == [phase |-> "idle", file |-> "", at |-> 0, got |-> Unread, states |-> {}]

\* A step of a process while an evaluation is under way: the state it leads to
\* is one of the states the system is in during that evaluation.
Witnessed ==
    IF query.phase = "reading"
    THEN /\ Cardinality(query.states \cup {Info'}) <= MaxInstants
         /\ query' = [query EXCEPT !.states = @ \cup {Info'}]
    ELSE query' = query

-----------------------------------------------------------------------------
(* Completions of a JavaScript evaluation *)

Return(v) == [error |-> "", value |-> v]

Throw(e) == [error |-> e, value |-> <<>>]

\* local.url : reading a property of null throws a TypeError.
Member_url(l) ==
    IF l.rec THEN Return(l.url)
    ELSE Throw("TypeError: Cannot read properties of null (reading 'url')")

\* Mutant: the start branch tests `local` alone, so a record without a url passes.
local_without_url(l) == IF l.rec THEN Return("[object Object]") ELSE Return("")

\* local && local.url : && does not evaluate its right operand when the left is falsy.
local_and_url(l) == IF l.rec THEN Member_url(l) ELSE Return("")

-----------------------------------------------------------------------------
(* Menu items: an object literal, absent properties written "" / FALSE / <<>> *)

Item(default, icon, text, href) ==
    [default |-> default, icon |-> icon, text |-> text, href |-> href,
     confirm |-> "", menu |-> <<>>]

Sub(icon, text, items) ==
    [default |-> FALSE, icon |-> icon, text |-> text, href |-> "",
     confirm |-> "", menu |-> items]

Confirm(item, prompt) == [item EXCEPT !.confirm = prompt]

-----------------------------------------------------------------------------
(* menu: async (kernel, info) => ... of the definition that tracks quick_update.js *)

\* let running = { install: info.running("install.js"), ... }
running_flags(info) ==
    [install      |-> info.running["install.js"],
     start        |-> info.running["start.js"],
     update       |-> info.running["update.js"],
     quick_update |-> info.running["quick_update.js"],
     reset        |-> info.running["reset.js"]]

installing_menu ==
    Return(<<Item(TRUE, "fa-solid fa-plug", "Installing", "install.js")>>)

install_menu ==
    Return(<<Item(TRUE, "fa-solid fa-plug", "Install", "install.js")>>)

\* href: local.url + "?ts=" + Date.now()
web_ui_href(url, clock) == url \o "?ts=" \o ToString(clock)

\* Mutant: "Terminal" carries default: true in both start menus.
terminal_item_always_default(default) ==
    Item(TRUE, "fa-solid fa-terminal", "Terminal", "start.js")

terminal_item(default) == Item(default, "fa-solid fa-terminal", "Terminal", "start.js")

start_menu(info) ==
    LET l == info.local["start.js"]
        c == local_and_url(l)
    IN  IF c.error # "" THEN c
        ELSE IF c.value # ""
        THEN Return(<<Item(TRUE, "fa-solid fa-rocket", "Open Web UI",
                           web_ui_href(l.url, info.now)),
                      terminal_item(FALSE)>>)
        ELSE Return(<<terminal_item(TRUE)>>)

updating_menu(r) ==
    Return(<<Item(TRUE, "fa-solid fa-terminal", "Updating",
                  IF r.update THEN "update.js" ELSE "quick_update.js")>>)

\* Mutant: the "Resetting" action copied from "Updating" with its href left unchanged.
resetting_menu_copied ==
    Return(<<Item(TRUE, "fa-solid fa-terminal", "Resetting", "update.js")>>)

resetting_menu ==
    Return(<<Item(TRUE, "fa-solid fa-terminal", "Resetting", "reset.js")>>)

start_item(clock) ==
    Item(TRUE, "fa-solid fa-power-off", "Start", "start.js?ts=" \o ToString(clock))

flags_submenu(clock) ==
    Sub("fa-solid fa-power-off", "Start -w Optimization flags",
        <<Item(FALSE, "fa-solid fa-power-off",
               "<div><strong>Start</strong><br><div>+SageAttention2</div></div>",
               "start.js?sage=true&ts=" \o ToString(clock)),
          Item(FALSE, "fa-solid fa-power-off",
               "<div><strong>Start</strong><br><div>+FlashAttention2</div></div>",
               "start.js?flash=true&ts=" \o ToString(clock))>>)

update_submenu ==
    Sub("fa-solid fa-plug", "Update",
        <<Item(FALSE, "fa-solid fa-bolt", "Quick Update (Git Pull only)", "quick_update.js"),
          Item(FALSE, "fa-solid fa-plug", "Full Update (Everything)", "update.js")>>)

reinstall_item == Item(FALSE, "fa-solid fa-plug", "Install", "install.js")

reset_item ==
    Confirm(Item(FALSE, "fa-regular fa-circle-xmark", "Reset", "reset.js"),
            "Are you sure you wish to reset the app?")

idle_menu(info) ==
    Return(<<start_item(info.now), flags_submenu(info.now), update_submenu,
             reinstall_item, reset_item>>)

installed_menu(info) ==
    LET r == running_flags(info)
    IN  IF r.start THEN start_menu(info)
        ELSE IF r.update \/ r.quick_update THEN updating_menu(r)
        ELSE IF r.reset THEN resetting_menu
        ELSE idle_menu(info)

\* Mutant: the installed marker is tested before running.install.
menu_installed_first(info) ==
    LET installed == info.exists["app/env"]
        r == running_flags(info)
    IN  IF installed THEN installed_menu(info)
        ELSE IF r.install THEN installing_menu
        ELSE install_menu

\* Mutant: the running.start test is hoisted out of the installed block.
menu_start_hoisted(info) ==
    LET installed == info.exists["app/env"]
        r == running_flags(info)
    IN  IF r.install THEN installing_menu
        ELSE IF r.start THEN start_menu(info)
        ELSE IF installed THEN installed_menu(info)
        ELSE install_menu

menu(info) ==
    LET installed == info.exists["app/env"]
        r == running_flags(info)
    IN  IF r.install THEN installing_menu
        ELSE IF installed THEN installed_menu(info)
        ELSE install_menu

-----------------------------------------------------------------------------
(* menu: async (kernel, info) => ... of pinokio.js *)

\* let running = { install, start, update, reset }: quick_update.js is not queried
pinokio_running_flags(info) ==
    [install |-> info.running["install.js"],
     start   |-> info.running["start.js"],
     update  |-> info.running["update.js"],
     reset   |-> info.running["reset.js"]]

pinokio_start_menu(info) ==
    LET l == info.local["start.js"]
        c == local_and_url(l)
    IN  IF c.error # "" THEN c
        ELSE IF c.value # ""
        THEN Return(<<Item(TRUE, "fa-solid fa-rocket", "Open Web UI", l.url),
                      terminal_item(FALSE)>>)
        ELSE Return(<<terminal_item(TRUE)>>)

pinokio_updating_menu ==
    Return(<<Item(TRUE, "fa-solid fa-terminal", "Updating", "update.js")>>)

pinokio_update_item == Item(FALSE, "fa-solid fa-plug", "Update", "update.js")

pinokio_idle_menu(info) ==
    Return(<<start_item(info.now), flags_submenu(info.now), pinokio_update_item,
             reinstall_item, reset_item>>)

\* Mutant: running.reset is tested before running.update.
pinokio_installed_menu_reset_first(info) ==
    LET r == pinokio_running_flags(info)
    IN  IF r.start THEN pinokio_start_menu(info)
        ELSE IF r.reset THEN resetting_menu
        ELSE IF r.update THEN pinokio_updating_menu
        ELSE pinokio_idle_menu(info)

pinokio_installed_menu(info) ==
    LET r == pinokio_running_flags(info)
    IN  IF r.start THEN pinokio_start_menu(info)
        ELSE IF r.update THEN pinokio_updating_menu
        ELSE IF r.reset THEN resetting_menu
        ELSE pinokio_idle_menu(info)

pinokio_menu(info) ==
    LET installed == info.exists["app/env"]
        r == pinokio_running_flags(info)
    IN  IF r.install THEN installing_menu
        ELSE IF installed THEN pinokio_installed_menu(info)
        ELSE install_menu

\* The two files that define a menu.
MenuFiles == {"part_002", "pinokio.js"}

Evaluation(file, info) == IF file = "pinokio.js" THEN pinokio_menu(info) ELSE menu(info)

-----------------------------------------------------------------------------
(* The pipelines: module.exports.run of the install script and of the update script *)

Shell(venv, path, message) ==
    [method |-> "shell.run", venv |-> venv, path |-> path, message |-> message]

Clone(url, dest) == [op |-> "git clone", url |-> url, dest |-> dest]

PullOrClone(dest, url) == [op |-> "git pull || git clone", url |-> url, dest |-> dest]

Pull == [op |-> "git pull", url |-> "", dest |-> "."]

Pip(args) == [op |-> "uv pip install", url |-> "", dest |-> args]

requirements ==
    <<Pip("-r comfyui/requirements.txt"),
      Pip("-r requirements.txt"),
      Pip("gguf>=0.13.0 sentencepiece protobuf"),
      Pip("einops omegaconf>=2.3.0 diffusers>=0.33.1 peft>=0.17.0 rotary_embedding_torch>=0.5.3 opencv-python matplotlib imageio-ffmpeg")>>

torch_step ==
    [method |-> "script.start", venv |-> "", path |-> "",
     message |-> <<[op |-> "script.start", url |-> "", dest |-> "torch.js"]>>]

link_step ==
    [method |-> "fs.link", venv |-> "", path |-> "",
     message |-> <<[op |-> "fs.link", url |-> "", dest |-> "app/comfyui/models"]>>]

install_run ==
    <<Shell("", "",
        <<Clone("https://github.com/comfyanonymous/ComfyUI", "app/comfyui"),
          Clone("https://github.com/ltdrdata/ComfyUI-Manager",
                "app/comfyui/custom_nodes/ComfyUI-Manager"),
          Clone("https://github.com/city96/ComfyUI-GGUF",
                "app/comfyui/custom_nodes/ComfyUI-GGUF"),
          Clone("https://github.com/numz/ComfyUI-SeedVR2_VideoUpscaler",
                "app/comfyui/custom_nodes/ComfyUI-SeedVR2_VideoUpscaler"),
          Clone("https://github.com/Kosinkadink/ComfyUI-VideoHelperSuite.git",
                "app/comfyui/custom_nodes/ComfyUI-VideoHelperSuite"),
          Clone("https://github.com/ChangeTheConstants/SeedVarianceEnhancer.git",
                "app/comfyui/custom_nodes/SeedVarianceEnhancer"),
          Clone("https://github.com/demon4932/CameraPromptsGenerator.git",
                "app/CameraPromptsGenerator")>>),
      Shell("env", "app", requirements),
      torch_step,
      link_step>>

update_run ==
    <<Shell("", "", <<Pull>>),
      Shell("", "app",
        <<PullOrClone("comfyui", "https://github.com/comfyanonymous/ComfyUI.git"),
          PullOrClone("comfyui/custom_nodes/ComfyUI-Manager",
                      "https://github.com/ltdrdata/ComfyUI-Manager.git"),
          PullOrClone("comfyui/custom_nodes/ComfyUI-GGUF",
                      "https://github.com/city96/ComfyUI-GGUF.git"),
          PullOrClone("comfyui/custom_nodes/ComfyUI-SeedVR2_VideoUpscaler",
                      "https://github.com/SeedVR2/ComfyUI-SeedVR2_VideoUpscaler.git"),
          PullOrClone("comfyui/custom_nodes/ComfyUI-VideoHelperSuite",
                      "https://github.com/Kosinkadink/ComfyUI-VideoHelperSuite.git"),
          PullOrClone("comfyui/custom_nodes/SeedVarianceEnhancer",
                      "https://github.com/ChangeTheConstants/SeedVarianceEnhancer.git"),
          PullOrClone("CameraPromptsGenerator",
                      "https://github.com/demon4932/CameraPromptsGenerator.git")>>),
      Shell("env", "app", requirements),
      torch_step>>

Run(p) == IF p = "install.js" THEN install_run ELSE update_run

\* A path given relative to a step's working directory (params.path).
Resolve(path, rel) == IF path = "" THEN rel ELSE path \o "/" \o rel

\* Every command of a pipeline, with the working directory of its step.
Commands(p) ==
    UNION {{[path |-> Run(p)[i].path, cmd |-> Run(p)[i].message[j]] :
                j \in DOMAIN Run(p)[i].message} : i \in DOMAIN Run(p)}

\* The destinations of the managed repositories, as either pipeline names them.
Dests ==
    {Resolve(x.path, x.cmd.dest) :
        x \in {y \in UNION {Commands(p) : p \in Pipelines} : y.cmd.url # ""}}

-----------------------------------------------------------------------------
(* Executing a pipeline: the launcher runs the steps in order, each shell    *)
(* step its commands in order, and stops the run at the first command that  *)
(* exits non-zero.                                                          *)

Idle == <<0, 0>>

Step(p) == Run(p)[pc[p][1]]

Cmd(p) == Step(p).message[pc[p][2]]

At(p, op) == running[p] /\ pc[p] # Idle /\ Cmd(p).op = op

\* The git run the latest command made: what a pull and a clone did, "none" if not attempted.
Did(p, c, dest, had, pull, clone, ok) ==
    [script |-> p, op |-> c.op, dest |-> dest, had |-> had,
     pull |-> pull, clone |-> clone, ok |-> ok]

\* shell.run with params.venv creates the environment <path>/<venv> before it
\* runs the commands, when it does not exist yet.
ShellEnv(step) ==
    IF step.venv # "" THEN fs \cup {Resolve(step.path, step.venv)} ELSE fs

\* Mutant: a failed command does not stop the run; the remaining commands and
\* steps still execute and only the outcome of the final command is reported.
Exited_past_failure(p, ok) ==
    LET step == pc[p][1]
        cmd  == pc[p][2]
        more == cmd < Len(Step(p).message) \/ step < Len(Run(p))
    IN  /\ pc' = [pc EXCEPT ![p] =
                    IF ~more THEN Idle
                    ELSE IF cmd < Len(Step(p).message) THEN <<step, cmd + 1>>
                    ELSE <<step + 1, 1>>]
        /\ status' = [status EXCEPT ![p] =
                    IF more THEN "Running" ELSE IF ok THEN "Succeeded" ELSE "Failed"]
        /\ running' = [running EXCEPT ![p] = more]
        /\ fs' = ShellEnv(Step(p))

\* The command at pc[p] has exited: the next command, the next step, or the end of the run.
Exited(p, ok) ==
    LET step == pc[p][1]
        cmd  == pc[p][2]
        more == cmd < Len(Step(p).message) \/ step < Len(Run(p))
    IN  /\ pc' = [pc EXCEPT ![p] =
                    IF ~ok \/ ~more THEN Idle
                    ELSE IF cmd < Len(Step(p).message) THEN <<step, cmd + 1>>
                    ELSE <<step + 1, 1>>]
        /\ status' = [status EXCEPT ![p] =
                    IF ~ok THEN "Failed" ELSE IF more THEN "Running" ELSE "Succeeded"]
        /\ running' = [running EXCEPT ![p] = ok /\ more]
        /\ fs' = ShellEnv(Step(p))

\* git clone <url> <dest>: succeeds only into a destination that holds no checkout.
GitClone(p) ==
    /\ At(p, "git clone")
    /\ LET c    == Cmd(p)
           dest == Resolve(Step(p).path, c.dest)
           had  == checkout[dest] # ""
       IN  \E ok \in BOOLEAN :
             /\ ok => ~had
             /\ checkout' = IF ok THEN [checkout EXCEPT ![dest] = c.url] ELSE checkout
             /\ last' = Did(p, c, dest, had, "none", IF ok THEN "ok" ELSE "failed", ok)
             /\ Exited(p, ok)
    /\ UNCHANGED <<local, now, run, shown, seen>>
    /\ Witnessed

\* git -C <dest> pull || git clone <url> <dest>: the clone runs only when the
\* pull failed; a pull succeeds only on an existing checkout.
GitPullOrClone(p) ==
    /\ At(p, "git pull || git clone")
    /\ LET c    == Cmd(p)
           dest == Resolve(Step(p).path, c.dest)
           had  == checkout[dest] # ""
       IN  \E pulled \in BOOLEAN, cloned \in BOOLEAN :
             /\ pulled => had /\ ~cloned
             /\ cloned => ~had
             /\ checkout' = IF cloned THEN [checkout EXCEPT ![dest] = c.url] ELSE checkout
             /\ last' = Did(p, c, dest, had,
                            IF pulled THEN "ok" ELSE "failed",
                            IF pulled THEN "none" ELSE IF cloned THEN "ok" ELSE "failed",
                            pulled \/ cloned)
             /\ Exited(p, pulled \/ cloned)
    /\ UNCHANGED <<local, now, run, shown, seen>>
    /\ Witnessed

\* git pull in the launcher's own directory, which is a checkout.
GitPull(p) ==
    /\ At(p, "git pull")
    /\ \E ok \in BOOLEAN :
         /\ last' = Did(p, Cmd(p), Cmd(p).dest, TRUE, IF ok THEN "ok" ELSE "failed", "none", ok)
         /\ Exited(p, ok)
    /\ UNCHANGED <<checkout, local, now, run, shown, seen>>
    /\ Witnessed

\* The package installer, the runtime bootstrap and the linking service report
\* success or failure.
Collaborator(p) ==
    /\ \E ok \in BOOLEAN :
         /\ last' = Did(p, Cmd(p), Cmd(p).dest, FALSE, "none", "none", ok)
         /\ Exited(p, ok)
    /\ UNCHANGED <<checkout, local, now, run, shown, seen>>
    /\ Witnessed

\* uv pip install ..., inside the environment of its step
PipInstall(p) ==
    /\ At(p, "uv pip install")
    /\ Collaborator(p)

\* script.start of torch.js
ScriptStart(p) ==
    /\ At(p, "script.start")
    /\ Collaborator(p)

\* fs.link of the model directories
FsLink(p) ==
    /\ At(p, "fs.link")
    /\ Collaborator(p)

-----------------------------------------------------------------------------
(* The launcher: it starts a script as a process when the user selects it,   *)
(* one lifecycle script at a time.                                           *)

NoCommand == Did("", [op |-> ""], "", FALSE, "none", "none", TRUE)

\* The script becomes a running process.
Spawn(s) ==
    /\ running' = [running EXCEPT ![s] = TRUE]
    /\ run' = [script |-> s, before |-> EnvMarker \in fs,
               prior |-> IF s \in Pipelines THEN status[s] ELSE "None"]
    /\ IF s \in Pipelines
       THEN /\ pc' = [pc EXCEPT ![s] = <<1, 1>>]
            /\ status' = [status EXCEPT ![s] = "Pending"]
       ELSE UNCHANGED <<pc, status>>
    /\ UNCHANGED <<fs, checkout, local, now, last, shown, seen>>
    /\ Witnessed

Launch(s) ==
    /\ \A t \in Scripts : ~running[t]
    /\ Spawn(s)

\* The hrefs that name script s: the file name, alone or followed by a query.
Hrefs(s) ==
    {s} \cup {s \o "?" \o flag \o "ts=" \o ToString(t) :
                flag \in {"", "sage=true&", "flash=true&"}, t \in 0..MaxClock}

\* The targets a menu offers, submenu entries included.
Offered(items) ==
    {items[i].href : i \in DOMAIN items}
    \cup UNION {{items[i].menu[j].href : j \in DOMAIN items[i].menu} : i \in DOMAIN items}

\* The user selects an action of the rendered menu, which is up to date; the
\* launcher starts the script its href names unless that script is running
\* already (then it only shows the running script).
Select(s) ==
    /\ seen.file # "" /\ seen.info = Info
    /\ shown.error = ""
    /\ Offered(shown.value) \cap Hrefs(s) # {}
    /\ ~running[s]
    /\ Spawn(s)

\* The launcher renders the menu again, from the same definition.
Render ==
    /\ seen.file # ""
    /\ shown' = Evaluation(seen.file, Info)
    /\ seen' = [file |-> seen.file, info |-> Info]
    /\ UNCHANGED <<fs, checkout, running, local, now, pc, status, run, last, query>>

\* start.js publishes its endpoint; the registry returns it from info.local("start.js").
Publish(l) ==
    /\ running["start.js"]
    /\ local.url = ""
    /\ l.rec /\ l # local
    /\ local' = l
    /\ UNCHANGED <<fs, checkout, running, now, pc, status, run, last, shown, seen>>
    /\ Witnessed

\* reset.js removes the environment.
ResetRemove ==
    /\ running["reset.js"]
    /\ EnvMarker \in fs
    /\ fs' = fs \ {EnvMarker}
    /\ UNCHANGED <<checkout, running, local, now, pc, status, run, last, shown, seen>>
    /\ Witnessed

\* A script that is no pipeline of this model ends; the record of start.js goes with it.
Terminate(s) ==
    /\ s \notin Pipelines
    /\ running[s]
    /\ running' = [running EXCEPT ![s] = FALSE]
    /\ local' = IF s = "start.js" THEN Null ELSE local
    /\ UNCHANGED <<fs, checkout, now, pc, status, run, last, shown, seen>>
    /\ Witnessed

-----------------------------------------------------------------------------
(* The menu is evaluated on every render; Date.now() reads the clock *)

\* Mutant: the menu keeps its previous result and returns it again when the
\* same definition is evaluated a second time.
Evaluate_memoized(file) ==
    /\ shown' = IF seen.file = file THEN shown ELSE Evaluation(file, Info)
    /\ seen' = [file |-> file, info |-> Info]
    /\ UNCHANGED <<fs, checkout, running, local, now, pc, status, run, last, query>>

Evaluate(file) ==
    /\ shown' = Evaluation(file, Info)
    /\ seen' = [file |-> file, info |-> Info]
    /\ UNCHANGED <<fs, checkout, running, local, now, pc, status, run, last, query>>

Tick ==
    /\ now < MaxClock
    /\ now' = now + 1
    /\ UNCHANGED <<fs, checkout, running, local, pc, status, run, last, shown, seen, query>>

-----------------------------------------------------------------------------
(* One evaluation, query by query: info.exists("app/env"), then info.running *)
(* of each script in the order of the `running` object literal, then, in the *)
(* start branch only, info.local("start.js"). Processes run in between.      *)

\* The scripts a definition passes to info.running, in order.
RunningQueries(file) ==
    IF file = "pinokio.js"
    THEN <<"install.js", "start.js", "update.js", "reset.js">>
    ELSE <<"install.js", "start.js", "update.js", "quick_update.js", "reset.js">>

\* The launcher calls menu(kernel, info).
Begin(file) ==
    /\ query.phase # "reading"
    /\ query' = [phase |-> "reading", file |-> file, at |-> 0, got |-> Unread,
                 states |-> {Info}]
    /\ UNCHANGED <<fs, checkout, running, local, now, pc, status, run, last, shown, seen>>

\* let installed = info.exists("app/env")
QueryExists ==
    /\ query.phase = "reading" /\ query.at = 0
    /\ query' = [query EXCEPT !.at = 1, !.got.exists = Info.exists]
    /\ UNCHANGED <<fs, checkout, running, local, now, pc, status, run, last, shown, seen>>

\* info.running(<script>), one property of the `running` object literal
QueryRunning ==
    /\ query.phase = "reading"
    /\ query.at \in DOMAIN RunningQueries(query.file)
    /\ LET s == RunningQueries(query.file)[query.at]
       IN  query' = [query EXCEPT !.at = @ + 1, !.got.running[s] = running[s]]
    /\ UNCHANGED <<fs, checkout, running, local, now, pc, status, run, last, shown, seen>>

\* All running flags have been read.
FlagsRead == query.at > Len(RunningQueries(query.file))

\* let local = info.local("start.js"), reached in the start branch only
QueryLocal ==
    /\ query.phase = "reading"
    /\ query.at = Len(RunningQueries(query.file)) + 1
    /\ query.got.exists["app/env"]
    /\ ~query.got.running["install.js"] /\ query.got.running["start.js"]
    /\ query' = [query EXCEPT !.at = @ + 1, !.got.local = Info.local]
    /\ UNCHANGED <<fs, checkout, running, local, now, pc, status, run, last, shown, seen>>

\* The evaluation returns the menu its branches select for what the queries returned.
ReturnMenu ==
    /\ query.phase = "reading"
    /\ FlagsRead
    /\ ~ENABLED QueryLocal
    /\ LET info == [query.got EXCEPT !.now = now]
       IN  /\ shown' = Evaluation(query.file, info)
           /\ seen' = [file |-> query.file, info |-> info]
           /\ query' = [query EXCEPT !.phase = "returned", !.got = info]
    /\ UNCHANGED <<fs, checkout, running, local, now, pc, status, run, last>>

-----------------------------------------------------------------------------
(* Specifications *)

NothingRan ==
    /\ checkout = [d \in Dests |-> ""]
    /\ pc = [p \in Pipelines |-> Idle]
    /\ status = [p \in Pipelines |-> "None"]
    /\ run = [script |-> "", before |-> FALSE, prior |-> "None"]
    /\ last = NoCommand

NotEvaluated ==
    /\ shown = Return(<<>>)
    /\ seen = [file |-> "", info |-> Info]
    /\ query = NoQuery

\* A fresh download of the launcher: nothing installed, nothing running.
Init ==
    /\ fs = {}
    /\ running = [s \in Scripts |-> FALSE]
    /\ local = Null
    /\ now = 0
    /\ NothingRan
    /\ NotEvaluated

Next ==
    \/ \E s \in Scripts : Launch(s)
    \/ \E p \in Pipelines : GitClone(p)
    \/ \E p \in Pipelines : GitPull(p)
    \/ \E p \in Pipelines : GitPullOrClone(p)
    \/ \E p \in Pipelines : PipInstall(p)
    \/ \E p \in Pipelines : ScriptStart(p)
    \/ \E p \in Pipelines : FsLink(p)
    \/ \E l \in Locals : Publish(l)
    \/ ResetRemove
    \/ \E s \in Scripts : Terminate(s)
    \/ \E file \in MenuFiles : Evaluate(file)

Spec == Init /\ [][Next]_vars

\* The menu as a function of what its queries return: every combination of the
\* marker, the five running flags and the endpoint record, at every clock value.
InitMenu ==
    /\ fs \in SUBSET {EnvMarker}
    /\ running \in [Scripts -> BOOLEAN]
    /\ local \in Locals
    /\ now = 0
    /\ NothingRan
    /\ NotEvaluated

NextMenu ==
    \/ \E file \in MenuFiles : Evaluate(file)
    \/ Tick

SpecMenu == InitMenu /\ [][NextMenu]_vars

\* The launcher used through its menu alone: a fresh download with the menu of
\* either definition rendered, scripts started only by selecting an offered action.
InitSelect ==
    /\ fs = {}
    /\ running = [s \in Scripts |-> FALSE]
    /\ local = Null
    /\ now = 0
    /\ NothingRan
    /\ \E file \in MenuFiles :
          /\ shown = Evaluation(file, Info)
          /\ seen = [file |-> file, info |-> Info]
    /\ query = NoQuery

NextSelect ==
    \/ \E s \in Scripts : Select(s)
    \/ Render
    \/ \E p \in Pipelines : GitClone(p)
    \/ \E p \in Pipelines : GitPull(p)
    \/ \E p \in Pipelines : GitPullOrClone(p)
    \/ \E p \in Pipelines : PipInstall(p)
    \/ \E p \in Pipelines : ScriptStart(p)
    \/ \E p \in Pipelines : FsLink(p)
    \/ \E l \in Locals : Publish(l)
    \/ ResetRemove
    \/ \E s \in Scripts : Terminate(s)

SpecSelect == InitSelect /\ [][NextSelect]_vars

\* One evaluation at a time made query by query, next to the processes the
\* launcher starts one at a time: they start, publish, remove the marker and end.
InitQueries ==
    /\ fs \in SUBSET {EnvMarker}
    /\ running = [s \in Scripts |-> FALSE]
    /\ local = Null
    /\ now = 0
    /\ NothingRan
    /\ NotEvaluated

NextQueries ==
    \/ \E file \in MenuFiles : Begin(file)
    \/ QueryExists
    \/ QueryRunning
    \/ QueryLocal
    \/ ReturnMenu
    \/ \E s \in Scripts : Launch(s)
    \/ \E l \in Locals : Publish(l)
    \/ ResetRemove
    \/ \E s \in Scripts : Terminate(s)

SpecQueries == InitQueries /\ [][NextQueries]_vars

-----------------------------------------------------------------------------
(* Vocabulary of the properties *)

Evaluated == seen.file # ""

Installed == seen.info.exists[EnvMarker]

Flag(s) == seen.info.running[s]

\* The evaluation returned exactly one action, with this label and target.
Single(text, href) ==
    /\ shown.error = ""
    /\ Len(shown.value) = 1
    /\ shown.value[1].text = text
    /\ shown.value[1].href = href
    /\ shown.value[1].menu = <<>>

\* The actions marked default, submenu entries included: <<i, 0>> is top-level
\* action i and <<i, j>> entry j of its submenu.
Defaults(items) ==
    {<<i, 0>> : i \in {k \in DOMAIN items : items[k].default}}
    \cup UNION {{<<i, j>> : j \in {k \in DOMAIN items[i].menu : items[i].menu[k].default}} :
                    i \in DOMAIN items}

-----------------------------------------------------------------------------
(* C1: whenever the install script is running, whatever the marker, the     *)
(* other running flags and the published endpoint are, the menu evaluation  *)
(* returns exactly one action, labelled "Installing", whose target is the   *)
(* install script.                                                          *)
C1_Installing ==
    (Evaluated /\ Flag("install.js")) => Single("Installing", "install.js")

\* C1's case: an evaluation with install running next to a started, published,
\* installed app under reset.
C1_Witness ==
    /\ Evaluated /\ Flag("install.js") /\ Flag("start.js") /\ Flag("reset.js")
    /\ Installed
    /\ seen.info.local["start.js"].url # ""
    /\ Single("Installing", "install.js")

(* C2, as claimed: with installed true, reset running and install not       *)
(* running, the menu is the single default action "Resetting" targeting the *)
(* reset script, whatever the start, update and quick-update flags are.     *)
C2_ResettingWhateverElseRuns ==
    (Evaluated /\ Installed /\ Flag("reset.js") /\ ~Flag("install.js"))
        => (Single("Resetting", "reset.js") /\ shown.value[1].default)

(* C2, amended: with installed true, reset running and none of install,     *)
(* start, update, quick-update running, the menu is the single default      *)
(* action "Resetting" targeting the reset script.                           *)
C2_Resetting ==
    (/\ Evaluated /\ Installed /\ Flag("reset.js")
     /\ ~Flag("install.js") /\ ~Flag("start.js")
     /\ ~Flag("update.js") /\ ~Flag("quick_update.js"))
        => (Single("Resetting", "reset.js") /\ shown.value[1].default)

\* C2's case: an evaluation of the installed app with reset alone running.
C2_Witness ==
    /\ Evaluated /\ Installed /\ Flag("reset.js")
    /\ \A s \in Scripts \ {"reset.js"} : ~Flag(s)
    /\ Single("Resetting", "reset.js") /\ shown.value[1].default

\* The state in which the menu offers "Open Web UI".
OpensWebUI(info) ==
    /\ info.exists[EnvMarker]
    /\ ~info.running["install.js"]
    /\ info.running["start.js"]
    /\ info.local["start.js"].url # ""

(* C3: with installed true, install not running, start running and a URL    *)
(* published, two evaluations of the same menu in the same state at         *)
(* different clock values return different targets for the default "Open    *)
(* Web UI" action.                                                          *)
C3_FreshTarget ==
    [][(/\ seen.file # "" /\ seen'.file = seen.file
        /\ OpensWebUI(seen.info)
        /\ seen'.info.exists = seen.info.exists
        /\ seen'.info.running = seen.info.running
        /\ seen'.info.local = seen.info.local
        /\ seen'.info.now # seen.info.now)
       => (/\ shown.value[1].text = "Open Web UI" /\ shown.value[1].default
           /\ shown'.value[1].text = "Open Web UI" /\ shown'.value[1].default
           /\ shown'.value[1].href # shown.value[1].href)]_vars

\* The latest script launched is a pipeline and its run has ended Failed.
LatestRunFailed ==
    /\ run.script \in Pipelines
    /\ status[run.script] = "Failed"

Labels(items) == [i \in DOMAIN items |-> items[i].text]

(* C4: a pipeline run that ended Failed leaves no running flag set and the  *)
(* installed marker as it was before the run; in particular, after an       *)
(* install run started without the marker has failed, app/env does not      *)
(* exist and the next menu evaluation returns [Install].                    *)
C4_FailedRunLeavesMarker ==
    LatestRunFailed =>
        /\ \A s \in Scripts : ~running[s]
        /\ (EnvMarker \in fs) = run.before
        /\ (/\ run.script = "install.js" /\ ~run.before
            /\ Evaluated /\ seen.info = Info)
               => (shown.error = "" /\ Labels(shown.value) = <<"Install">>)

\* The latest command failed although its collaborator's contract promises
\* success there: any failure but that of a clone into a destination that holds
\* a checkout.
Misbehaved ==
    /\ ~last.ok
    /\ ~(last.op = "git clone" /\ last.had)

(* C5: a run of install or update that follows an earlier run of the same   *)
(* pipeline, ended Failed or Succeeded, and in which every collaborator     *)
(* behaves per its contract (pull succeeds on an existing checkout, clone   *)
(* succeeds into a destination that holds no checkout, package installs,    *)
(* bootstrap and linking succeed) ends Succeeded: such a run fails only by  *)
(* a collaborator failing where its contract promises success.              *)
C5_RerunSucceeds ==
    (LatestRunFailed /\ run.prior \in {"Failed", "Succeeded"}) => Misbehaved

(* C6: every fetch of a managed repository, by install and by update, is a  *)
(* clone_or_pull: on a destination that already holds a checkout a pull is  *)
(* attempted, no clone is attempted when the pull succeeded, a clone is     *)
(* attempted only after the pull failed and the fetch fails only when both  *)
(* failed; so with a client whose pull succeeds on the existing checkout,   *)
(* fetching again succeeds.                                                 *)
C6_CloneOrPull ==
    (last.dest \in Dests /\ last.had) =>
        /\ last.pull # "none"
        /\ last.pull = "ok" => (last.clone = "none" /\ last.ok)
        /\ last.clone # "none" => last.pull = "failed"
        /\ ~last.ok => (last.pull = "failed" /\ last.clone = "failed")

(* C7: with installed true, install and start not running and update or     *)
(* quick-update running, the menu is the single action "Updating" pointing  *)
(* at the update script that is running, and at the full update script when *)
(* both are.                                                                *)
C7_Updating ==
    (/\ Evaluated /\ Installed /\ ~Flag("install.js") /\ ~Flag("start.js")
     /\ (Flag("update.js") \/ Flag("quick_update.js")))
        => Single("Updating", IF Flag("update.js") THEN "update.js" ELSE "quick_update.js")

(* C8: when installed is true exactly one action of the returned menu,      *)
(* submenu entries included, is marked default; in every state at most one  *)
(* is.                                                                      *)
C8_OneDefault ==
    Evaluated =>
        /\ Cardinality(Defaults(shown.value)) <= 1
        /\ Installed => Cardinality(Defaults(shown.value)) = 1

\* C8's case: an evaluation of the installed app that returned submenus.
C8_Witness ==
    /\ Evaluated /\ Installed
    /\ shown.error = "" /\ Len(shown.value) > 1
    /\ \E i \in DOMAIN shown.value : shown.value[i].menu # <<>>
    /\ Defaults(shown.value) = {<<1, 0>>}

\* The conditions of the branches, in the order of their priority.
Priority ==
    <<Flag("install.js"),
      ~Installed,
      Flag("start.js"),
      Flag("update.js") \/ Flag("quick_update.js"),
      Flag("reset.js"),
      TRUE>>

FirstMatch == CHOOSE i \in DOMAIN Priority :
                 Priority[i] /\ \A j \in 1..(i - 1) : ~Priority[j]

\* The first label of each branch, in the order of Priority.
BranchLabels ==
    <<{"Installing"}, {"Install"}, {"Open Web UI", "Terminal"}, {"Updating"},
      {"Resetting"}, {"Start"}>>

(* C9: for every combination of the marker, the five running flags and the  *)
(* endpoint record (none, one without a URL, one with a URL) the evaluation *)
(* raises no error and returns a non-empty list, and the branch it takes is *)
(* the first that matches in the order: install running, not installed,     *)
(* start running, update or quick-update running, reset running, idle.      *)
C9_TotalFirstMatch ==
    Evaluated =>
        /\ shown.error = ""
        /\ Len(shown.value) >= 1
        /\ shown.value[1].text \in BranchLabels[FirstMatch]

(* C10: with installed false and install not running, whatever the start,   *)
(* update, quick-update and reset flags are, the menu is the single default *)
(* action "Install" targeting the install script.                           *)
C10_Install ==
    (Evaluated /\ ~Installed /\ ~Flag("install.js"))
        => (Single("Install", "install.js") /\ shown.value[1].default)

\* C10's case: an evaluation without the marker while start, update and reset run.
C10_Witness ==
    /\ Evaluated /\ ~Installed /\ ~Flag("install.js")
    /\ Flag("start.js") /\ Flag("update.js") /\ Flag("reset.js")
    /\ seen.info.local["start.js"].url # ""
    /\ Single("Install", "install.js") /\ shown.value[1].default

-----------------------------------------------------------------------------
\* The labels of every action of a menu, submenu entries included.
AllLabels(items) ==
    {items[i].text : i \in DOMAIN items}
    \cup UNION {{items[i].menu[j].text : j \in DOMAIN items[i].menu} : i \in DOMAIN items}

\* The targets a menu derives from a published URL at a clock value: the URL
\* itself, or the URL followed by the clock as a query.
DerivedFrom(url, clock) == {url, url \o "?ts=" \o ToString(clock)}

\* The start branch: installed, install not running, start running.
StartBranch(info) ==
    /\ info.exists[EnvMarker]
    /\ ~info.running["install.js"]
    /\ info.running["start.js"]

(* C11: with installed true, install not running and start running, the     *)
(* menu is exactly default "Open Web UI" (target derived from the published  *)
(* URL) followed by "Terminal" (target the start script) when a URL is       *)
(* published, and exactly the single action "Terminal" targeting the start   *)
(* script when none is; "Open Web UI" appears in no other state.             *)
C11_StartMenu ==
    Evaluated =>
        /\ OpensWebUI(seen.info) =>
              /\ shown.error = ""
              /\ Labels(shown.value) = <<"Open Web UI", "Terminal">>
              /\ Defaults(shown.value) = {<<1, 0>>}
              /\ shown.value[1].href \in
                    DerivedFrom(seen.info.local["start.js"].url, seen.info.now)
              /\ shown.value[2].href = "start.js"
              /\ \A i \in 1..2 : shown.value[i].menu = <<>>
        /\ (StartBranch(seen.info) /\ seen.info.local["start.js"].url = "") =>
              Single("Terminal", "start.js")
        /\ ~OpensWebUI(seen.info) =>
              (shown.error = "" /\ "Open Web UI" \notin AllLabels(shown.value))

\* C11's case: the start branch evaluated with a URL published, reset running too.
C11_Witness ==
    /\ Evaluated /\ OpensWebUI(seen.info) /\ seen.info.running["reset.js"]
    /\ Labels(shown.value) = <<"Open Web UI", "Terminal">>
    /\ shown.value[1].default

\* The actions that carry a confirmation prompt, indexed as in Defaults.
Confirming(items) ==
    {<<i, 0>> : i \in {k \in DOMAIN items : items[k].confirm # ""}}
    \cup UNION {{<<i, j>> : j \in {k \in DOMAIN items[i].menu : items[i].menu[k].confirm # ""}} :
                    i \in DOMAIN items}

\* The targets of the entries of a submenu, in order.
Targets(items) == [i \in DOMAIN items |-> items[i].href]

(* C12: with installed true and no script running, the menu is exactly the  *)
(* five top-level actions, in this order: default "Start" (target the start *)
(* script with a cache-busting token), the optimization-flags submenu with  *)
(* the entries SageAttention2 and FlashAttention2, an "Update" submenu with *)
(* the entries Quick Update and Full Update, "Install", "Reset"; "Reset" is *)
(* the only action carrying a confirmation prompt.                          *)
C12_IdleMenu ==
    (Evaluated /\ Installed /\ \A s \in Scripts : ~Flag(s)) =>
        LET ts == "ts=" \o ToString(seen.info.now)
        IN  /\ shown.error = ""
            /\ Labels(shown.value) =
                  <<"Start", "Start -w Optimization flags", "Update", "Install", "Reset">>
            /\ Defaults(shown.value) = {<<1, 0>>}
            /\ shown.value[1].href = "start.js?" \o ts
            /\ Labels(shown.value[2].menu) =
                  <<"<div><strong>Start</strong><br><div>+SageAttention2</div></div>",
                    "<div><strong>Start</strong><br><div>+FlashAttention2</div></div>">>
            /\ Targets(shown.value[2].menu) =
                  <<"start.js?sage=true&" \o ts, "start.js?flash=true&" \o ts>>
            /\ Labels(shown.value[3].menu) =
                  <<"Quick Update (Git Pull only)", "Full Update (Everything)">>
            /\ Targets(shown.value[3].menu) = <<"quick_update.js", "update.js">>
            /\ shown.value[4].href = "install.js"
            /\ shown.value[5].href = "reset.js"
            /\ \A i \in {1, 4, 5} : shown.value[i].menu = <<>>
            /\ Confirming(shown.value) = {<<5, 0>>}

-----------------------------------------------------------------------------
\* The positions of the commands of a pipeline, in listed order.
Positions(p) == UNION {{<<i, j>> : j \in DOMAIN Run(p)[i].message} : i \in DOMAIN Run(p)}

FirstPosition == <<1, 1>>

LastPosition(p) == <<Len(Run(p)), Len(Run(p)[Len(Run(p))].message)>>

\* The position listed just before pos, for pos other than the first.
Before(p, pos) ==
    IF pos[2] > 1 THEN <<pos[1], pos[2] - 1>>
    ELSE <<pos[1] - 1, Len(Run(p)[pos[1] - 1].message)>>

\* The position listed just after pos, for pos other than the last.
After(p, pos) ==
    IF pos[2] < Len(Run(p)[pos[1]].message) THEN <<pos[1], pos[2] + 1>>
    ELSE <<pos[1] + 1, 1>>

\* rec is the record of an execution of the command listed at pos.
RecordOf(p, pos, rec) ==
    LET step == Run(p)[pos[1]]
        c    == step.message[pos[2]]
    IN  /\ rec.script = p
        /\ rec.op = c.op
        /\ rec.dest = IF c.url # "" THEN Resolve(step.path, c.dest) ELSE c.dest

\* A command exits successfully; a pull with a clone fallback does when either did.
Succeeded(rec) ==
    /\ rec.ok
    /\ rec.op = "git pull || git clone" => (rec.pull = "ok" \/ rec.clone = "ok")
    /\ rec.op = "git clone" => rec.clone = "ok"
    /\ rec.op = "git pull" => rec.pull = "ok"

-----------------------------------------------------------------------------
\* The labels of the actions that report a script in progress.
ProgressLabels == {"Installing", "Updating", "Resetting", "Terminal"}

\* The labels of the idle action set.
IdleLabels == <<"Start", "Start -w Optimization flags", "Update", "Install", "Reset">>

(* C14: the menu keeps no state between evaluations. A step that records an *)
(* evaluation leaves the marker, the running flags, the endpoint and the    *)
(* pipelines as they were, and its result is the one the decision algorithm *)
(* yields for the values queried in that step, whatever was evaluated       *)
(* before; hence an evaluation made while no script is running returns      *)
(* neither "Installing", "Updating", "Resetting" nor "Terminal" but either  *)
(* the single "Install" or the idle action set.                             *)
C14_Stateless ==
    [][(seen' # seen \/ shown' # shown) =>
          /\ UNCHANGED <<fs, checkout, running, local, now, pc, status, run, last>>
          /\ seen'.info = Info
          /\ shown' = Evaluation(seen'.file, Info)
          /\ (\A s \in Scripts : ~running[s]) =>
                /\ shown'.error = ""
                /\ AllLabels(shown'.value) \cap ProgressLabels = {}
                /\ Labels(shown'.value) = IF EnvMarker \in fs THEN IdleLabels ELSE <<"Install">>
      ]_vars

\* C14's case: an install run failed, nothing is running, and the evaluation of
\* the state it left returns the idle set.
C14_Witness ==
    /\ Evaluated /\ seen.info = Info
    /\ \A s \in Scripts : ~running[s]
    /\ run.script = "install.js" /\ status["install.js"] = "Failed"
    /\ Labels(shown.value) = IdleLabels

-----------------------------------------------------------------------------
(* C15: lifecycle scripts stay mutually exclusive when they are launched    *)
(* only through the menu: starting with no script running, if the user only *)
(* selects a target offered by the latest evaluation, at most one of        *)
(* install, start, update, quick-update and reset is running at any time,   *)
(* also while reset is running and has removed the environment marker.      *)
C15_MutualExclusion == Cardinality({s \in Scripts : running[s]}) <= 1

-----------------------------------------------------------------------------
\* The targets of the top-level progress actions of a menu, by position.
ProgressTargets(items) ==
    [i \in {k \in DOMAIN items : items[k].text \in ProgressLabels} |-> items[i].href]

\* The default actions of a menu with their labels.
DefaultLabels(items) ==
    {<<d, IF d[2] = 0 THEN items[d[1]].text ELSE items[d[1]].menu[d[2]].text>> :
        d \in Defaults(items)}

(* C16: the two menu definitions are equivalent wherever quick-update is not *)
(* running: evaluated on the same marker, running flags and endpoint, both   *)
(* return the same ordered sequence of top-level action labels, mark the     *)
(* same action as default and give every progress action the same target;    *)
(* with installed true and only quick-update running the definition that     *)
(* tracks it returns "Updating", as it does for update.                      *)
C16_Equivalent ==
    Evaluated =>
        LET a == menu(seen.info)
            b == pinokio_menu(seen.info)
        IN  /\ shown = IF seen.file = "pinokio.js" THEN b ELSE a
            /\ ~Flag("quick_update.js") =>
                  /\ a.error = "" /\ b.error = ""
                  /\ Labels(a.value) = Labels(b.value)
                  /\ DefaultLabels(a.value) = DefaultLabels(b.value)
                  /\ ProgressTargets(a.value) = ProgressTargets(b.value)
            /\ (Installed /\ \A s \in Scripts : Flag(s) <=> s = "quick_update.js") =>
                  /\ Labels(a.value) = <<"Updating">>
                  /\ Labels(a.value) =
                        Labels(menu([seen.info EXCEPT
                                       !.running["quick_update.js"] = FALSE,
                                       !.running["update.js"] = TRUE]).value)

\* C16's case: pinokio.js evaluated, installed, with update and reset both
\* running and quick-update not: both definitions answer "Updating".
C16_Witness ==
    /\ Evaluated /\ seen.file = "pinokio.js" /\ Installed
    /\ Flag("update.js") /\ Flag("reset.js")
    /\ ~Flag("install.js") /\ ~Flag("start.js") /\ ~Flag("quick_update.js")
    /\ Single("Updating", "update.js")
    /\ Labels(menu(seen.info).value) = <<"Updating">>

-----------------------------------------------------------------------------
(* C17: one evaluation reads the marker, then each running flag, then (in   *)
(* the start branch only) the published endpoint, as separate queries while *)
(* processes start, publish, remove the marker and exit in between. The     *)
(* evaluation never fails, and the menu it returns is the menu the decision *)
(* algorithm yields for the state the system was in at some single instant  *)
(* between the call and the return.                                         *)
C17_SingleInstant ==
    query.phase = "returned" =>
        /\ shown.error = ""
        /\ \E i \in query.states : shown = Evaluation(query.file, i)

-----------------------------------------------------------------------------
\* The URL a pipeline clones into a destination.
ClonedBy(p, dest) ==
    LET x == CHOOSE y \in Commands(p) :
                 y.cmd.url # "" /\ Resolve(y.path, y.cmd.dest) = dest
    IN  x.cmd.url

\* Two URLs name the same repository: the host serves a repository under its
\* URL with and without the ".git" suffix.
SameRepository(a, b) == a = b \/ a \o ".git" = b \/ a = b \o ".git"

(* C18: install and update manage the same repositories: each of the seven  *)
(* destinations is cloned from the same repository by the install pipeline  *)
(* and by the update pipeline's fallback, so after any sequence of install  *)
(* and update runs a destination that holds a checkout holds one of the     *)
(* repository the install pipeline clones there.                            *)
C18_OneUpstream ==
    /\ Cardinality(Dests) = Len(install_run[1].message)
    /\ \A d \in Dests :
          checkout[d] # "" =>
              /\ SameRepository(checkout[d], ClonedBy("install.js", d))
              /\ SameRepository(checkout[d], ClonedBy("update.js", d))

====
